---- MODULE Spec2Model ----
(***************************************************************************)
(* Model of the two notebooks held in src/example_3_bisection.ipynb:       *)
(*                                                                         *)
(*  - the bisection notebook (lines 1-267): 100 Hodgkin-Huxley axon        *)
(*    segments, a store()d network state and a 10-iteration loop of        *)
(*    restore / set v / run / correct / halve / record;                    *)
(*  - the pyloric-network notebook (lines 268-778): a standalone device     *)
(*    set up with build_on_run=False, four run statements with the state   *)
(*    monitor switched off and on, device.build and the monitor reads.     *)
(*    Its fast synapses (circuit.label, fast_synapses.connect) are set up  *)
(*    by statements modelled on their own.                                 *)
(*                                                                         *)
(* Voltages are integers in units of 25 mV / 2^11, so that 25 mV and its   *)
(* ten successive halves are exact (as they are in binary floating point,  *)
(* where halving only changes the exponent).  Simulated time of the        *)
(* bisection notebook is in ms, that of the pyloric notebook in half       *)
(* seconds.                                                                *)
(*                                                                         *)
(* Brian2 itself (the integration of the equations, the code generation)   *)
(* is not part of the repository.  run() of the bisection notebook is      *)
(* modelled by its observable effect on the network state: time advances,  *)
(* the spike monitor's counts grow by the spikes emitted, the membrane     *)
(* potential and gating variables leave their initial values.              *)
(***************************************************************************)
EXTENDS Integers, Naturals, Sequences, FiniteSets, TLC

\* ------------------------------------------------------------------ bounds

\* Number of axon segments of the model (the notebook simulates 100).
NSeg == 2

\* Largest number of spikes one segment emits in one run (the group has no
\* reset and no refractoriness: a segment spikes on every time step on which
\* v > 50 mV, so a spiking segment is counted more than once).
MaxSpikes == 2

\* --------------------------------------------------------------- constants

\* 25 mV in model units (one unit is 25 mV / 2^11).
TwentyFive_mV == 2048

\* range(10)
NIter == 10

\* np.full((11, len(axon)), np.nan)
NRows == 11

\* run(20*ms), in ms
RunDuration == 20

\* np.nan: a value no estimate can take.
NaN == -1000000

\* axon.v = 0*mV: the (shifted) resting potential.
RestingPotential == 0

\* threshold='v>50*mV': the potential above which the group emits a spike.
DetectionThreshold == 2 * TwentyFive_mV

Seg == 0 .. (NSeg - 1)

\* The excitability thresholds the segments may have (one per segment, fixed
\* by its sodium channel density gNa): below the search range, at its lower
\* end, on the initial estimate, off the grid of the estimates, at the upper
\* end, and above the detection threshold.
TSet ==
  { -3000, 1, TwentyFive_mV, 2461, 2 * TwentyFive_mV - 1, 5000 }

VARIABLES
  pc,         \* next statement of the bisection notebook
  i,          \* the loop variable (-1: not yet bound)
  v0,         \* the threshold estimates, one per segment
  step,       \* the correction step
  estimates,  \* the table of recorded estimates (<<>>: not yet allocated)
  net,        \* the network: t, axon.v, the gating variables, S.count
  stored,     \* the network state saved by store()
  T,          \* each segment's excitability threshold (fixed, hidden)
  emitted,    \* the spikes each segment emitted in this iteration's run
  outcomes,   \* per segment, the spike / no-spike outcomes of the runs so far
  calls       \* how often restore, axon.v = v0, run and the update ran

bvars == <<pc, i, v0, step, estimates, net, stored, T, emitted, outcomes, calls>>

VARIABLES
  ppc,          \* next statement of the pyloric notebook
  build_on_run, \* the device's build_on_run option
  M_active,     \* M.active
  runs,         \* the runs defined so far: <<[duration, active]>>
  sim,          \* the standalone simulation: "idle", "running", "finished"
  cur,          \* index in runs of the run being executed
  elapsed,      \* time executed of the current run
  sim_t,        \* simulated time
  M_t,          \* the times at which M recorded
  reads         \* the monitors the notebook has read

pvars == <<ppc, build_on_run, M_active, runs, sim, cur, elapsed, sim_t, M_t, reads>>

VARIABLES
  spc,    \* next statement of the pyloric notebook's circuit set-up
  label,  \* circuit.label, one per neuron (<<>>: not yet assigned)
  scan,   \* number of (pre, post) pairs fast_synapses.connect has examined
  fast    \* the fast synapses created so far, as (pre, post) pairs

svars == <<spc, label, scan, fast>>

vars == <<bvars, pvars, svars>>

\* ------------------------------------------------- bisection: operators

Abs(x) == IF x < 0 THEN -x ELSE x

Max(a, b) == IF a >= b THEN a ELSE b

Min(a, b) == IF a <= b THEN a ELSE b

RECURSIVE Pow2(_)
Pow2(n) == IF n = 0 THEN 1 ELSE 2 * Pow2(n - 1)

\* 25*mV*ones(len(axon))
InitialEstimates == [j \in Seg |-> TwentyFive_mV]

\* step = 25*mV
InitialStep == TwentyFive_mV

\* The network state at store(): t = 0, v = 0 mV, gating variables at their
\* resting values, a fresh spike monitor.
InitialNet ==
  [ t     |-> 0,
    v     |-> [j \in Seg |-> RestingPotential],
    gates |-> "rest",
    count |-> [j \in Seg |-> 0] ]

\* np.full((11, len(axon)), np.nan)*mV
FullNaN == [r \in 0 .. (NRows - 1) |-> [j \in Seg |-> NaN]]

\* estimates[r, :] = v : the values of v are copied into row r.
SetRow(est, r, v) == [est EXCEPT ![r] = v]

\* Variant: the mask is taken from segment 0 for every segment.
DecreaseSpikedWrongMask(v, cnt, st) ==
  [j \in Seg |-> IF cnt[0] > 0 THEN v[j] - st ELSE v[j]]

\* v0[S.count > 0] -= step
DecreaseSpiked(v, cnt, st) ==
  [j \in Seg |-> IF cnt[j] > 0 THEN v[j] - st ELSE v[j]]

\* Variant: the mask is read one segment off.
IncreaseSilentShifted(v, cnt, st) ==
  [j \in Seg |-> IF cnt[(j + 1) % NSeg] = 0 THEN v[j] + st ELSE v[j]]

\* Variant: the mask is computed from the estimates, which the decrease
\* has just changed, instead of the spike counts.
IncreaseSilentOnEstimate(v, cnt, st) ==
  [j \in Seg |-> IF v[j] <= TwentyFive_mV THEN v[j] + st ELSE v[j]]

\* v0[S.count == 0] += step
IncreaseSilent(v, cnt, st) ==
  [j \in Seg |-> IF cnt[j] = 0 THEN v[j] + st ELSE v[j]]

\* Variant: the step is quartered.
HalveTwice(st) == (st \div 2) \div 2

\* step /= 2.0
Halve(st) == st \div 2

\* A run starts from the stored state when restore() preceded it: time 0
\* and the gating variables at rest.
FromStored(n) == n.t = 0 /\ n.gates = "rest"

\* The numbers of spikes segment j may emit in a run of network n.  From the
\* stored state the segment spikes exactly when its initial potential
\* exceeds its excitability threshold or the detection threshold v > 50 mV;
\* from any other state the model does not say.
SpikesOf(n, j) ==
  IF FromStored(n)
    THEN IF n.v[j] > T[j] \/ n.v[j] > DetectionThreshold
           THEN 1 .. MaxSpikes
           ELSE {0}
    ELSE 0 .. MaxSpikes

\* The threshold the search of segment j looks for.
Threshold(j) == Min(T[j], DetectionThreshold)

\* ---------------------------------------------------- bisection: actions

BisectInit ==
  /\ pc = "alloc"
  /\ i = -1
  /\ v0 = InitialEstimates
  /\ step = InitialStep
  /\ estimates = <<>>
  /\ net = InitialNet
  /\ stored = InitialNet
  /\ T \in [Seg -> TSet]
  /\ emitted = [j \in Seg |-> 0]
  /\ outcomes = [j \in Seg |-> <<>>]
  /\ calls = [restore |-> 0, setv |-> 0, run |-> 0, update |-> 0]

\* estimates = np.full((11, len(axon)), np.nan)*mV
AllocEstimates ==
  /\ pc = "alloc"
  /\ estimates' = FullNaN
  /\ pc' = "row0"
  /\ UNCHANGED <<i, v0, step, net, stored, T, emitted, outcomes, calls>>
  /\ UNCHANGED <<pvars, svars>>

\* estimates[0, :] = v0
RecordInitial ==
  /\ pc = "row0"
  /\ estimates' = SetRow(estimates, 0, v0)
  /\ pc' = "for"
  /\ UNCHANGED <<i, v0, step, net, stored, T, emitted, outcomes, calls>>
  /\ UNCHANGED <<pvars, svars>>

\* Variant: range(9).
LoopHeadNine ==
  /\ pc = "for"
  /\ IF i + 1 < NIter - 1
       THEN i' = i + 1 /\ pc' = "restore"
       ELSE i' = i /\ pc' = "done"
  /\ emitted' = [j \in Seg |-> 0]
  /\ UNCHANGED <<v0, step, estimates, net, stored, T, outcomes, calls>>
  /\ UNCHANGED <<pvars, svars>>

\* for i in range(10):   (no spike has been emitted yet in the iteration
\* that starts, nor after the loop)
LoopHead ==
  /\ pc = "for"
  /\ IF i + 1 < NIter
       THEN i' = i + 1 /\ pc' = "restore"
       ELSE i' = i /\ pc' = "done"
  /\ emitted' = [j \in Seg |-> 0]
  /\ UNCHANGED <<v0, step, estimates, net, stored, T, outcomes, calls>>
  /\ UNCHANGED <<pvars, svars>>

\* Variant: the spike monitor is not part of the restored state.
RestoreKeepsCounts ==
  /\ pc = "restore"
  /\ net' = [stored EXCEPT !.count = net.count]
  /\ calls' = [calls EXCEPT !.restore = @ + 1]
  /\ pc' = "setv"
  /\ UNCHANGED <<i, v0, step, estimates, stored, T, emitted, outcomes>>
  /\ UNCHANGED <<pvars, svars>>

\* restore()
Restore ==
  /\ pc = "restore"
  /\ net' = stored
  /\ calls' = [calls EXCEPT !.restore = @ + 1]
  /\ pc' = "setv"
  /\ UNCHANGED <<i, v0, step, estimates, stored, T, emitted, outcomes>>
  /\ UNCHANGED <<pvars, svars>>

\* Variant: the potential is left at its stored value.
SetVSkipped ==
  /\ pc = "setv"
  /\ net' = net
  /\ calls' = [calls EXCEPT !.setv = @ + 1]
  /\ pc' = "run"
  /\ UNCHANGED <<i, v0, step, estimates, stored, T, emitted, outcomes>>
  /\ UNCHANGED <<pvars, svars>>

\* axon.v = v0
SetV ==
  /\ pc = "setv"
  /\ net' = [net EXCEPT !.v = v0]
  /\ calls' = [calls EXCEPT !.setv = @ + 1]
  /\ pc' = "run"
  /\ UNCHANGED <<i, v0, step, estimates, stored, T, emitted, outcomes>>
  /\ UNCHANGED <<pvars, svars>>

\* run(20*ms)
Run ==
  /\ pc = "run"
  /\ \E e \in [Seg -> 0 .. MaxSpikes] :
       /\ \A j \in Seg : e[j] \in SpikesOf(net, j)
       /\ emitted' = e
       /\ outcomes' = [j \in Seg |-> Append(outcomes[j], e[j] > 0)]
       /\ net' = [ t     |-> net.t + RunDuration,
                   v     |-> [j \in Seg |-> RestingPotential],
                   gates |-> "evolved",
                   count |-> [j \in Seg |-> net.count[j] + e[j]] ]
  /\ calls' = [calls EXCEPT !.run = @ + 1]
  /\ pc' = "dec"
  /\ UNCHANGED <<i, v0, step, estimates, stored, T>>
  /\ UNCHANGED <<pvars, svars>>

\* v0[S.count > 0] -= step
Decrease ==
  /\ pc = "dec"
  /\ v0' = DecreaseSpiked(v0, net.count, step)
  /\ pc' = "inc"
  /\ UNCHANGED <<i, step, estimates, net, stored, T, emitted, outcomes, calls>>
  /\ UNCHANGED <<pvars, svars>>

\* v0[S.count == 0] += step
Increase ==
  /\ pc = "inc"
  /\ v0' = IncreaseSilent(v0, net.count, step)
  /\ calls' = [calls EXCEPT !.update = @ + 1]
  /\ pc' = "halve"
  /\ UNCHANGED <<i, step, estimates, net, stored, T, emitted, outcomes>>
  /\ UNCHANGED <<pvars, svars>>

\* step /= 2.0
HalveStep ==
  /\ pc = "halve"
  /\ step' = Halve(step)
  /\ pc' = "record"
  /\ UNCHANGED <<i, v0, estimates, net, stored, T, emitted, outcomes, calls>>
  /\ UNCHANGED <<pvars, svars>>

\* Variant: estimates[i, :] = v0.
RecordSameRow ==
  /\ pc = "record"
  /\ estimates' = SetRow(estimates, i, v0)
  /\ pc' = "for"
  /\ UNCHANGED <<i, v0, step, net, stored, T, emitted, outcomes, calls>>
  /\ UNCHANGED <<pvars, svars>>

\* estimates[i + 1, :] = v0
Record ==
  /\ pc = "record"
  /\ estimates' = SetRow(estimates, i + 1, v0)
  /\ pc' = "for"
  /\ UNCHANGED <<i, v0, step, net, stored, T, emitted, outcomes, calls>>
  /\ UNCHANGED <<pvars, svars>>

\* ----------------------------------------------------- pyloric: constants

\* init_time = 2.5*second, in half seconds
init_time == 5

\* observe_time = 4*second, in half seconds
observe_time == 8

\* adapt_time = 49 * second, in half seconds
adapt_time == 98

\* ------------------------------------------------------ pyloric: actions

\* The state before set_device: a standalone device builds on the first run
\* unless told otherwise; a monitor is active when created.
PyloricInit ==
  /\ ppc = "set_device"
  /\ build_on_run = TRUE
  /\ M_active = TRUE
  /\ runs = <<>>
  /\ sim = "idle"
  /\ cur = 0
  /\ elapsed = 0
  /\ sim_t = 0
  /\ M_t = <<>>
  /\ reads = {}

\* Variant: build_on_run left at its default.
SetDeviceDefault ==
  /\ ppc = "set_device"
  /\ build_on_run' = TRUE
  /\ ppc' = "off1"
  /\ UNCHANGED <<M_active, runs, sim, cur, elapsed, sim_t, M_t, reads>>
  /\ UNCHANGED <<bvars, svars>>

\* set_device('cpp_standalone', build_on_run=False)
SetDevice ==
  /\ ppc = "set_device"
  /\ build_on_run' = FALSE
  /\ ppc' = "off1"
  /\ UNCHANGED <<M_active, runs, sim, cur, elapsed, sim_t, M_t, reads>>
  /\ UNCHANGED <<bvars, svars>>

\* M.active = val : the statement at from, followed by the statement at to.
\* The notebook waits while a simulation it triggered is executing.
SetActive(from, to, val) ==
  /\ ppc = from
  /\ sim # "running"
  /\ M_active' = val
  /\ ppc' = to
  /\ UNCHANGED <<build_on_run, runs, sim, cur, elapsed, sim_t, M_t, reads>>
  /\ UNCHANGED <<bvars, svars>>

\* run(dur, report='text') on the standalone device: the run is added to the
\* simulation's main function with the objects active at this moment.  With
\* build_on_run the device builds and executes at once; a run after the
\* build is an error.
RunStmt(from, to, dur) ==
  /\ ppc = from
  /\ sim # "running"
  /\ runs' = Append(runs, [duration |-> dur, active |-> M_active])
  /\ IF sim = "finished"
       THEN ppc' = "error" /\ UNCHANGED <<sim, cur, elapsed>>
       ELSE /\ ppc' = to
            /\ IF build_on_run
                 THEN sim' = "running" /\ cur' = 1 /\ elapsed' = 0
                 ELSE UNCHANGED <<sim, cur, elapsed>>
  /\ UNCHANGED <<build_on_run, M_active, sim_t, M_t, reads>>
  /\ UNCHANGED <<bvars, svars>>

\* M.active = False   (before the initial run)
ActiveOff1 == SetActive("off1", "run_init", FALSE)

\* run(init_time, report='text')
RunInit == RunStmt("run_init", "on1", init_time)

\* M.active = True    (before the first observation)
ActiveOn1 == SetActive("on1", "run_observe1", TRUE)

\* run(observe_time, report='text')
RunObserve1 == RunStmt("run_observe1", "off2", observe_time)

\* Variant: the monitor is not switched off for the adaptation.
ActiveStaysOn2 == SetActive("off2", "run_adapt", TRUE)

\* M.active = False   (before the adaptation)
ActiveOff2 == SetActive("off2", "run_adapt", FALSE)

\* run(adapt_time, report='text')
RunAdapt == RunStmt("run_adapt", "on2", adapt_time)

\* M.active = True    (before the second observation)
ActiveOn2 == SetActive("on2", "run_observe2", TRUE)

\* run(observe_time, report='text')
RunObserve2 == RunStmt("run_observe2", "build", observe_time)

\* device.build(directory='example_1'): compiles the runs defined so far and
\* executes them; building twice is an error.
DeviceBuild ==
  /\ ppc = "build"
  /\ sim # "running"
  /\ IF sim = "idle"
       THEN sim' = "running" /\ cur' = 1 /\ elapsed' = 0 /\ ppc' = "spike_trains"
       ELSE ppc' = "error" /\ UNCHANGED <<sim, cur, elapsed>>
  /\ UNCHANGED <<build_on_run, M_active, runs, sim_t, M_t, reads>>
  /\ UNCHANGED <<bvars, svars>>

\* One half second of the executing simulation: M, scheduled at the start of
\* the time step, records the time if it was active when the current run was
\* defined; then the clock advances.
SimTick ==
  /\ sim = "running"
  /\ elapsed < runs[cur].duration
  /\ M_t' = IF runs[cur].active THEN Append(M_t, sim_t) ELSE M_t
  /\ sim_t' = sim_t + 1
  /\ elapsed' = elapsed + 1
  /\ UNCHANGED <<ppc, build_on_run, M_active, runs, sim, cur, reads>>
  /\ UNCHANGED <<bvars, svars>>

\* The current run is over: the next one starts, or the simulation ends.
SimRunEnd ==
  /\ sim = "running"
  /\ elapsed = runs[cur].duration
  /\ IF cur < Len(runs)
       THEN cur' = cur + 1 /\ elapsed' = 0 /\ sim' = sim
       ELSE sim' = "finished" /\ UNCHANGED <<cur, elapsed>>
  /\ UNCHANGED <<ppc, build_on_run, M_active, runs, sim_t, M_t, reads>>
  /\ UNCHANGED <<bvars, svars>>

\* spike_trains = spikes.spike_trains()
ReadSpikeTrains ==
  /\ ppc = "spike_trains"
  /\ sim # "running"
  /\ reads' = reads \cup {"spikes"}
  /\ ppc' = "plot"
  /\ UNCHANGED <<build_on_run, M_active, runs, sim, cur, elapsed, sim_t, M_t>>
  /\ UNCHANGED <<bvars, svars>>

\* do_pyloric_net_plot(spike_trains, M.t, M.v, 'v', ...)
Plot ==
  /\ ppc = "plot"
  /\ sim # "running"
  /\ reads' = reads \cup {"M.t", "M.v"}
  /\ ppc' = "end"
  /\ UNCHANGED <<build_on_run, M_active, runs, sim, cur, elapsed, sim_t, M_t>>
  /\ UNCHANGED <<bvars, svars>>

\* ------------------------------------------- pyloric: the fast synapses

\* ABPD, LP, PY = 0, 1, 2  # Arbitrary numbers
ABPD == 0

LP == 1

PY == 2

\* circuit = NeuronGroup(3, ...)
NNeurons == 3

Neurons == 0 .. (NNeurons - 1)

Types == {ABPD, LP, PY}

\* Variant: the exception is written the wrong way round.
ConnectConditionReversed(label_pre, label_post) ==
  /\ label_pre # label_post
  /\ ~(label_pre = ABPD /\ label_post = PY)

\* 'label_pre != label_post and not (label_pre == PY and label_post == ABPD)'
ConnectCondition(label_pre, label_post) ==
  /\ label_pre # label_post
  /\ ~(label_pre = PY /\ label_post = ABPD)

\* The k-th (pre, post) pair of circuit x circuit, pre-synaptic index first.
PairAt(k) == <<k \div NNeurons, k % NNeurons>>

SynapsesInit ==
  /\ spc = "label"
  /\ label = <<>>
  /\ scan = 0
  /\ fast = {}

\* circuit.label = [ABPD, LP, PY]: one neuron per type in the notebook; the
\* other assignments are the networks with several neurons of a type, which
\* the condition is written to cover as well.
AssignLabel ==
  /\ spc = "label"
  /\ \E l \in [Neurons -> Types] : label' = l
  /\ spc' = "connect"
  /\ UNCHANGED <<scan, fast>>
  /\ UNCHANGED <<bvars, pvars>>

\* fast_synapses.connect(condition): the condition is evaluated for the next
\* pair of a pre- and a post-synaptic neuron, and a synapse is created where
\* it holds.
ConnectPair ==
  /\ spc = "connect"
  /\ scan < NNeurons * NNeurons
  /\ LET pre  == PairAt(scan)[1]
         post == PairAt(scan)[2]
     IN  fast' = IF ConnectCondition(label[pre], label[post])
                   THEN fast \cup {<<pre, post>>}
                   ELSE fast
  /\ scan' = scan + 1
  /\ UNCHANGED <<spc, label>>
  /\ UNCHANGED <<bvars, pvars>>

\* fast_synapses.connect(condition) returns: every pair has been examined.
ConnectDone ==
  /\ spc = "connect"
  /\ scan = NNeurons * NNeurons
  /\ spc' = "connected"
  /\ UNCHANGED <<label, scan, fast>>
  /\ UNCHANGED <<bvars, pvars>>

\* ----------------------------------------------------------- specification

Init == BisectInit /\ PyloricInit /\ SynapsesInit

\* The bisection notebook.
Next ==
  \/ AllocEstimates
  \/ RecordInitial
  \/ LoopHead
  \/ Restore
  \/ SetV
  \/ Run
  \/ Decrease
  \/ Increase
  \/ HalveStep
  \/ Record

Spec == Init /\ [][Next]_vars

\* The bisection notebook, run to its end: a notebook cell that can execute
\* its next statement does.
FairSpec == Spec /\ WF_vars(Next)

\* The pyloric notebook.
NextPyloric ==
  \/ SetDevice
  \/ ActiveOff1
  \/ RunInit
  \/ ActiveOn1
  \/ RunObserve1
  \/ ActiveOff2
  \/ RunAdapt
  \/ ActiveOn2
  \/ RunObserve2
  \/ DeviceBuild
  \/ SimTick
  \/ SimRunEnd
  \/ ReadSpikeTrains
  \/ Plot

SpecPyloric == Init /\ [][NextPyloric]_vars

\* The set-up of the fast synapses in the pyloric notebook (the thresholds
\* of the bisection notebook play no part in it and are held at one value).
InitSynapses == Init /\ T = [j \in Seg |-> TwentyFive_mV]

NextSynapses ==
  \/ AssignLabel
  \/ ConnectPair
  \/ ConnectDone

SpecSynapses == InitSynapses /\ [][NextSynapses]_vars

\* ------------------------------------------------------------------ claims

\* The statements of the loop body that follow the run of iteration i.
AfterRun == {"dec", "inc", "halve", "record"}

\* The statements of iteration i that use the step of that iteration.
BeforeHalving == {"restore", "setv", "run", "dec", "inc", "halve"}

\* Distance of segment j's estimate from its threshold before and after the
\* correction of the current iteration (read where pc = "halve": row i of
\* the table still holds the estimate the run was started with).
DistBefore(j) == Abs(estimates[i][j] - Threshold(j))

DistAfter(j) == Abs(v0[j] - Threshold(j))

\* C1 as stated: for every segment and every iteration, the distance of the
\* estimate from the threshold after the correction is no larger than the
\* distance before it.
C1_DistanceNeverGrows ==
  pc = "halve" => \A j \in Seg : DistAfter(j) <= DistBefore(j)

\* C1 amended: the distance after the correction of iteration i is no larger
\* than the larger of the distance before it and the step of iteration i; it
\* is no larger than the distance before whenever that distance is at least
\* half the step, and it is larger (the correction overshoots the threshold)
\* whenever that distance is less than half the step.
C1_DistanceBoundedByStep ==
  pc = "halve" =>
    \A j \in Seg :
      /\ DistAfter(j) <= Max(DistBefore(j), step)
      /\ 2 * DistBefore(j) >= step => DistAfter(j) <= DistBefore(j)
      /\ 2 * DistBefore(j) < step => DistAfter(j) > DistBefore(j)

C1_Witness ==
  /\ pc = "halve"
  /\ i >= 3
  /\ \E j \in Seg : DistAfter(j) > DistBefore(j)
  /\ \E j \in Seg : DistAfter(j) < DistBefore(j)

\* C2: in every iteration every segment receives exactly one correction: after
\* the decrease only the segments that spiked in this iteration's run have
\* moved, down by the step; after the increase every segment that spiked is
\* down by the step and every segment that did not is up by the step, so no
\* estimate is unchanged and none has moved twice.
C2_ExactlyOneCorrection ==
  /\ pc = "inc" =>
       \A j \in Seg :
         v0[j] = IF emitted[j] > 0 THEN estimates[i][j] - step
                                   ELSE estimates[i][j]
  /\ pc = "halve" =>
       \A j \in Seg :
         /\ v0[j] = IF emitted[j] > 0 THEN estimates[i][j] - step
                                     ELSE estimates[i][j] + step
         /\ v0[j] # estimates[i][j]
         /\ (net.count[j] > 0) = (emitted[j] > 0)

C2_Witness ==
  /\ pc = "halve"
  /\ i >= 1
  /\ \E j, k \in Seg : emitted[j] > 1 /\ emitted[k] = 0

\* C3: the search always ends, and when it has ended restore, axon.v = v0,
\* run and the update have each been executed exactly 10 times, whatever the
\* runs' spike outcomes were; none is ever executed an eleventh time.
C3_TenCycles ==
  /\ [](pc = "done" =>
          /\ calls.restore = NIter /\ calls.setv = NIter
          /\ calls.run = NIter /\ calls.update = NIter
          /\ \A j \in Seg : Len(outcomes[j]) = NIter)
  /\ [](\A c \in DOMAIN calls : calls[c] <= NIter)
  /\ <>(pc = "done")

C3_Witness ==
  /\ pc = "done"
  /\ calls.run = NIter
  /\ \E j \in Seg : \E a, b \in 1 .. NIter : outcomes[j][a] /\ ~outcomes[j][b]
  /\ \E j \in Seg : \A a \in 1 .. NIter : outcomes[j][a]

\* C4: the step is halved once per iteration, after the estimates have been
\* updated: throughout iteration i, up to and including the update, the step is
\* 25 mV / 2^i, every segment has been moved by that same amount, after the
\* halving the step is 25 mV / 2^(i+1), and after the loop it is 25 mV / 2^10.
C4_StepHalvedOncePerIteration ==
  /\ pc \in BeforeHalving => step * Pow2(i) = TwentyFive_mV
  /\ pc = "halve" =>
       \A j \in Seg : Abs(v0[j] - estimates[i][j]) * Pow2(i) = TwentyFive_mV
  /\ pc \in {"record", "for"} => step * Pow2(i + 1) = TwentyFive_mV
  /\ pc = "done" => step * Pow2(NIter) = TwentyFive_mV

C4_Witness ==
  /\ pc = "done"
  /\ step * 1024 = TwentyFive_mV
  /\ i = NIter - 1

\* The estimate of a segment after the first k of the outcomes o (TRUE: the
\* segment spiked), computed from that segment's outcomes alone.
RECURSIVE EstimateAfter(_, _)
EstimateAfter(o, k) ==
  IF k = 0
    THEN TwentyFive_mV
    ELSE IF o[k]
           THEN EstimateAfter(o, k - 1) - TwentyFive_mV \div Pow2(k - 1)
           ELSE EstimateAfter(o, k - 1) + TwentyFive_mV \div Pow2(k - 1)

\* The rows of the table written so far.
Written(r) == \E j \in Seg : estimates[r][j] # NaN

\* C5: the segments are searched independently: every estimate recorded for
\* segment j is determined by segment j's own spike / no-spike outcomes (it
\* is EstimateAfter of them, whatever the other segments did), so two
\* segments, or two executions, with the same outcomes have the same
\* recorded estimates.
C5_OwnOutcomesDecide ==
  pc \notin {"alloc", "row0"} =>
    /\ \A j \in Seg : \A r \in 0 .. (NRows - 1) :
         Written(r) =>
           /\ r <= Len(outcomes[j])
           /\ estimates[r][j] = EstimateAfter(outcomes[j], r)
    /\ \A j, k \in Seg :
         outcomes[j] = outcomes[k] =>
           \A r \in 0 .. (NRows - 1) : estimates[r][j] = estimates[r][k]

C5_Witness ==
  /\ pc = "done"
  /\ \E j, k \in Seg :
       /\ outcomes[j][1] # outcomes[k][1]
       /\ estimates[NRows - 1][j] # estimates[NRows - 1][k]
       /\ \E a, b \in 1 .. NIter : outcomes[j][a] /\ ~outcomes[j][b]

\* C6: a segment whose threshold lies strictly between 0 mV and 50 mV ends
\* the 10 iterations with an estimate within 25 mV / 2^9 of the threshold.
C6_FinalEstimatePrecise ==
  pc = "done" =>
    \A j \in Seg :
      (0 < Threshold(j) /\ Threshold(j) < 2 * TwentyFive_mV) =>
        Abs(v0[j] - Threshold(j)) * Pow2(NIter - 1) <= TwentyFive_mV

C6_Witness ==
  /\ pc = "done"
  /\ \E j \in Seg :
       /\ 0 < Threshold(j) /\ Threshold(j) < 2 * TwentyFive_mV
       /\ Threshold(j) # TwentyFive_mV
       /\ Abs(v0[j] - Threshold(j)) * Pow2(NIter - 1) <= TwentyFive_mV
  /\ \E j \in Seg :
       /\ Threshold(j) < 0
       /\ Abs(v0[j] - Threshold(j)) * Pow2(NIter - 1) > TwentyFive_mV

\* C7: every run starts from the stored state with the potential set to the
\* current estimate: when run is about to execute, time is 0, the gating
\* variables are at rest, the spike counts are 0 and axon.v is v0; restore
\* has put the stored state back before axon.v is set; and after the run the
\* counts are the spikes of this iteration's run alone.
C7_RunsStartFromStored ==
  /\ pc = "setv" => net = stored
  /\ pc = "run" =>
       /\ FromStored(net)
       /\ net.count = [j \in Seg |-> 0]
       /\ net.v = v0
  /\ pc \in AfterRun =>
       /\ net.count = emitted
       /\ net.t = RunDuration

C7_Witness ==
  /\ pc = "dec"
  /\ i >= 1
  /\ \E j \in Seg : emitted[j] > 0 /\ outcomes[j][i]
  /\ \E j \in Seg : emitted[j] = 0 /\ outcomes[j][i]

\* C8: the table records the history of the search: row 0 holds 25 mV for
\* every segment, row i+1 holds the estimates as they are after the update of
\* iteration i while the later rows are still NaN, a row once written never
\* changes (the in-place updates of v0 do not reach it), and after the loop
\* no entry is NaN and the last row is the final v0.
C8_TableRecordsHistory ==
  /\ [](pc \notin {"alloc", "row0"} =>
          estimates[0] = [j \in Seg |-> TwentyFive_mV])
  /\ [](pc \in {"for", "done"} =>
          /\ estimates[i + 1] = v0
          /\ \A r \in 0 .. (NRows - 1) : Written(r) <=> r <= i + 1)
  /\ [](pc = "done" =>
          /\ \A r \in 0 .. (NRows - 1) : \A j \in Seg : estimates[r][j] # NaN
          /\ estimates[NRows - 1] = v0)
  /\ [][pc # "alloc" =>
          \A r \in 0 .. (NRows - 1) : Written(r) => estimates'[r] = estimates[r]]_vars

C8_Witness ==
  /\ pc = "done"
  /\ estimates[NRows - 1] = v0
  /\ estimates[NRows - 1] # estimates[NRows - 2]
  /\ estimates[1] # estimates[0]

\* The two observation windows, in half seconds.
InWindow(t) ==
  \/ init_time <= t /\ t < init_time + observe_time
  \/ /\ init_time + observe_time + adapt_time <= t
     /\ t < init_time + 2 * observe_time + adapt_time

\* C9: M records during exactly the two observation windows: every recorded
\* time lies in a window, M is active in the executing simulation only at
\* times in a window, and when the simulation has finished the four runs
\* have executed in the order init, observe, adapt, observe for 59.5 s in
\* total and M holds every time step of the two windows and no other.
C9_RecordsOnlyInWindows ==
  /\ \A k \in 1 .. Len(M_t) : InWindow(M_t[k])
  /\ (sim = "running" /\ elapsed < runs[cur].duration) =>
       (runs[cur].active <=> InWindow(sim_t))
  /\ sim = "finished" =>
       /\ [k \in 1 .. Len(runs) |-> runs[k].duration]
            = <<init_time, observe_time, adapt_time, observe_time>>
       /\ 2 * sim_t = 119 * 2   \* 59.5 s
       /\ {M_t[k] : k \in 1 .. Len(M_t)} = {t \in 0 .. sim_t : InWindow(t)}
       /\ Len(M_t) = 2 * observe_time

C9_Witness ==
  /\ sim = "finished"
  /\ Len(M_t) = 2 * observe_time
  /\ M_t[1] = init_time
  /\ M_t[Len(M_t)] = sim_t - 1

\* The statements of the pyloric notebook that precede device.build.
BeforeBuild ==
  { "set_device", "off1", "run_init", "on1", "run_observe1", "off2",
    "run_adapt", "on2", "run_observe2", "build" }

\* C10: no run statement compiles or executes anything: up to device.build
\* the simulation is idle, at time 0, with nothing recorded; the simulation
\* executes only once all four runs are defined; and the monitors are read
\* only when the simulation has finished.
C10_BuildOnlyByDeviceBuild ==
  /\ ppc \in BeforeBuild => (sim = "idle" /\ sim_t = 0 /\ M_t = <<>>)
  /\ ppc # "set_device" => ~build_on_run
  /\ sim # "idle" => (Len(runs) = 4 /\ ppc \notin BeforeBuild)
  /\ reads # {} => sim = "finished"
  /\ ppc # "error"

C10_Witness ==
  /\ ppc = "end"
  /\ sim = "finished"
  /\ reads = {"spikes", "M.t", "M.v"}
  /\ Len(runs) = 4

\* The ordered pairs of types the fast synapses are meant to join.
FastTypePairs ==
  { <<ABPD, LP>>, <<ABPD, PY>>, <<LP, ABPD>>, <<LP, PY>>, <<PY, LP>> }

\* The notebook's own labelling: neuron 0 is AB/PD, neuron 1 LP, neuron 2 PY.
OnePerType == label = [n \in Neurons |-> n]

\* C11: the fast synapses join every ordered pair of neurons of different
\* type except from PY to AB/PD, and no other pair: while connect runs only
\* such pairs are created and never a neuron with itself, and when it has
\* returned the synapses are exactly those pairs; with one neuron per type
\* they are AB/PD->LP, AB/PD->PY, LP->AB/PD, LP->PY and PY->LP.
C11_FastSynapsesAsIntended ==
  spc \in {"connect", "connected"} =>
    /\ \A s \in fast :
         /\ s[1] # s[2]
         /\ <<label[s[1]], label[s[2]]>> \in FastTypePairs
    /\ spc = "connected" =>
         /\ fast = { s \in Neurons \X Neurons :
                       <<label[s[1]], label[s[2]]>> \in FastTypePairs }
         /\ OnePerType =>
              fast = { <<0, 1>>, <<0, 2>>, <<1, 0>>, <<1, 2>>, <<2, 1>> }

C11_Witness ==
  /\ spc = "connected"
  /\ OnePerType
  /\ Cardinality(fast) = 5
  /\ <<PY, ABPD>> \notin fast
  /\ <<PY, LP>> \in fast

====
